---- MODULE Spec2Model ----
(***************************************************************************)
(* Model of the FXAS21002C gyroscope driver (src/fxas21002c.py).           *)
(*                                                                         *)
(* The driver object holds three configuration fields (fsr, odr, fs_exp)   *)
(* and talks to the device through register transactions of the i2c base   *)
(* class (write_read, write_bytes).  Every bus transaction is one step of  *)
(* the model, so that a transport error can strike any of them and a       *)
(* second execution context can be placed between any two of them.         *)
(*                                                                         *)
(* Numbers: angular velocities are kept in units of 1/128 dps (the         *)
(* coefficients 0.0625 .. 0.0078125 are 8/128 .. 1/128, so every product   *)
(* is exact); temperatures are kept in hundredths of a degree.             *)
(***************************************************************************)
EXTENDS Integers, Sequences, FiniteSets, TLC

VARIABLES
    fsr,        \* self.fsr
    odr,        \* self.odr
    fs_exp,     \* self.fs_exp
    has_cfg,    \* TRUE once init has created the three attributes
    dev,        \* device registers: register address -> byte
    pc,         \* per execution context: the next bus transaction of init
    reg,        \* per execution context: the local `reg` of _standby/_active
    bus,        \* transactions issued by the operation in progress / last run
    prev,       \* during and after an init call that repeats the arguments of the
                \* init call completed right before it: that earlier call; else NoCall
    ret,        \* outcome of the operation in progress / last run
    ncalls,     \* number of init calls started (counted only under SpecF, SpecC)
    cargs,      \* per execution context: the arguments of its latest init call
    written,    \* the device registers written so far
    stale,      \* per execution context: it is between the read and the last
                \* write-back of _standby/_active, and another context has
                \* written control register 1 since that read
    lost,       \* some write-back of _standby/_active has overwritten such a write
    serial,     \* the callers hold one lock around every call on the driver
    cur         \* the execution context of the call started last: bus and ret
                \* record the transactions and the outcome of that call

vars == <<fsr, odr, fs_exp, has_cfg, dev, pc, reg, bus, prev, ret, ncalls,
          cargs, written, stale, lost, serial, cur>>

----------------------------------------------------------------------------
(* Register map and configuration constants, src/fxas21002c.py:14-54 *)

FXAS_H_OUT_X_MSB == 1
FXAS_H_CTRL_REG0 == 13
FXAS_H_RT_CFG    == 14
FXAS_H_RT_THS    == 16
FXAS_H_RT_COUNT  == 17
FXAS_H_TEMP      == 18
FXAS_H_CTRL_REG1 == 19
FXAS_H_CTRL_REG2 == 20
FXAS_H_CTRL_REG3 == 21

GODR_200HZ   == 2
GFSR_2000DPS == 0

\* mutant: the table in the opposite order
GSENS_COEFF_reversed == <<1, 2, 4, 8>>

\* GSENS_COEFF in units of 1/128 dps per LSB: 0.0625, 0.03125, 0.015625, 0.0078125
GSENS_COEFF == <<8, 4, 2, 1>>

\* The registers init writes
Regs == {FXAS_H_CTRL_REG0, FXAS_H_RT_CFG, FXAS_H_RT_THS, FXAS_H_RT_COUNT,
         FXAS_H_CTRL_REG1, FXAS_H_CTRL_REG2, FXAS_H_CTRL_REG3}

----------------------------------------------------------------------------
(* Bounds of the model *)

\* init is called with fsr in 0..MaxFsrArg (0..3 is the documented range)
MaxFsrArg == 4
\* under SpecF at most MaxCalls init calls are started
MaxCalls == 2

FsrArgs == 0..MaxFsrArg
OdrArgs == {2, 7, 8}
ExpArgs == {-1, 0, 1, 2}
\* argument triples used when bus transactions may fail
FailArgs == {<<0, 2, 0>>, <<3, 7, 1>>, <<4, 8, 2>>}
\* content of control register 1 when the driver is constructed
InitCtrl1 == {0, 31, 255}
\* 6-byte answers of the device to the read at OUT_X_MSB: each axis gets each
\* of the words 32767, 32768, 32769, 65535, and 1 (0x00, 0x01)
GyroData == { <<127, 255,   0,   1, 128,   0>>,
              <<128,   0, 127, 255,   0,   1>>,
              <<  0,   1, 128,   0, 127, 255>>,
              <<128,   1, 255, 255, 128,   1>>,
              <<255, 255, 128,   1, 255, 255>>,
              <<127, 255, 128,   0, 128,   1>> }
TempBytes == {0, 1, 127, 128, 200, 255}
AxisArgs == {"None", "x", "X", "y", "Y", "z", "Z", "Q"}
UnitArgs == {"C", "c", "K", "k", "F", "f", "q"}

Procs == {1, 2}
\* an earlier call: <<arguments, control register 1 at entry, writes, stored fields>>
NoCall == <<<<>>, 0, <<>>, <<>>>>
PrevCtrl1 == prev[2]
PrevWrites == prev[3]
PrevFields == prev[4]

----------------------------------------------------------------------------
(* Python integer operators, as the code uses them *)

\* a | b on Python integers (two's complement of unbounded width)
RECURSIVE BitOr(_, _)
BitOr(a, b) ==
    IF a = 0 THEN b
    ELSE IF b = 0 THEN a
    ELSE IF a = -1 THEN -1
    ELSE IF b = -1 THEN -1
    ELSE 2 * BitOr(a \div 2, b \div 2) + (IF a % 2 = 1 THEN 1 ELSE b % 2)

\* a & b on Python integers
RECURSIVE BitAnd(_, _)
BitAnd(a, b) ==
    IF a = 0 THEN 0
    ELSE IF b = 0 THEN 0
    ELSE IF a = -1 THEN b
    ELSE IF b = -1 THEN a
    ELSE 2 * BitAnd(a \div 2, b \div 2) + (IF a % 2 = 1 THEN b % 2 ELSE 0)

\* ~a
BitNot(a) == (-a) - 1

\* a << n
Shl(a, n) == a * (2 ^ n)

----------------------------------------------------------------------------
(* The expressions of the driver *)

\* mutant: reg & ~0x01
clear_mode_bits_bit0(r) == BitAnd(r, BitNot(1))

\* reg & ~0x03 (lines 140 and 181)
clear_mode_bits(r) == BitAnd(r, BitNot(3))

\* mutant: reg = 0x02
set_active_bit_only(r) == 2

\* reg | 0x02 (line 184)
set_active_bit(r) == BitOr(r, 2)

\* mutant: no check of the argument
fs_exp_value_unchecked(e) == e

\* _set_fs_exp, lines 146-147: the value written and stored
fs_exp_value(e) == IF e \notin {0, 1} THEN 0 ELSE e

\* _set_fsr, lines 152-153.  `fsr < 0 | fsr > 3` is the chained comparison
\* fsr < (0 | fsr) > 3, since | binds tighter than < and >.
fsr_value(f) ==
    IF f < BitOr(0, f) /\ BitOr(0, f) > 3 THEN GFSR_2000DPS ELSE f

\* _set_odr, lines 158-159: odr < (0 | odr) > 7
odr_value(o) ==
    IF o < BitOr(0, o) /\ BitOr(0, o) > 7 THEN GODR_200HZ ELSE o

\* mutant: odr<<1
odr_bits_shl1(o) == Shl(o, 1)

\* mutant: (odr<<2) | 0x02
odr_bits_active(o) == BitOr(Shl(o, 2), 2)

\* (odr<<2), line 160
odr_bits(o) == Shl(o, 2)

\* mutant: least significant byte first
raw_gyro_lsb_first(data) ==
    << BitOr(Shl(data[2], 8), data[1]),
       BitOr(Shl(data[4], 8), data[3]),
       BitOr(Shl(data[6], 8), data[5]) >>

\* get_raw_gyro, lines 198-201: data is the 6-byte answer
raw_gyro(data) ==
    << BitOr(Shl(data[1], 8), data[2]),
       BitOr(Shl(data[3], 8), data[4]),
       BitOr(Shl(data[5], 8), data[6]) >>

\* mutant: the two's complement conversion
sign_fix_twos_complement(w) == IF w >= 32768 THEN w - 65536 ELSE w

\* get_gyro, lines 229-234
sign_fix(w) == IF w >= 32769 THEN w - 65535 ELSE w

\* GSENS_COEFF[i] for a Python index i: negative indices count from the end
coeff_ok(i) == i \in -4..3
coeff(i) == IF i >= 0 THEN GSENS_COEFF[i + 1] ELSE GSENS_COEFF[i + 5]

\* get_gyro, line 235
scale(raw, f, e) == [i \in 1..3 |-> (sign_fix(raw[i]) * coeff(f)) * (e + 1)]

\* mutant: "y" selects the Z element
select_axis_y_is_z(gyro, axis) ==
    IF axis \in {"x", "X"} THEN gyro[1]
    ELSE IF axis \in {"y", "Y"} THEN gyro[3]
    ELSE IF axis \in {"z", "Z"} THEN gyro[3]
    ELSE gyro

\* get_gyro, lines 237-244
select_axis(gyro, axis) ==
    IF axis \in {"x", "X"} THEN gyro[1]
    ELSE IF axis \in {"y", "Y"} THEN gyro[2]
    ELSE IF axis \in {"z", "Z"} THEN gyro[3]
    ELSE gyro

\* mutant: raw_t > 128
temp_cels_gt(raw_t) == IF raw_t > 128 THEN raw_t - 256 ELSE raw_t

\* get_int_temp, lines 259-262
temp_cels(raw_t) == IF raw_t >= 128 THEN raw_t - 256 ELSE raw_t

\* get_int_temp, lines 264-273, in hundredths of a degree; None is tagged
Num(n) == <<"num", n>>
None == <<"None", 0>>
int_temp(raw_t, unit) ==
    IF unit \in {"c", "C"} THEN Num(100 * temp_cels(raw_t))
    ELSE IF unit \in {"k", "K"} THEN Num(100 * temp_cels(raw_t) + 27315)
    ELSE IF unit \in {"f", "F"} THEN Num(180 * temp_cels(raw_t) + 3200)
    ELSE None

----------------------------------------------------------------------------
(* The bus: i2c.I2C.write_read and write_bytes *)

\* a transaction as the driver issues it; ok = FALSE: it raises a transport error
\* a transaction is the tuple <<kind, register, value written or length read, ok>>
W(r, v, ok) == <<"w", r, v, ok>>
R(r, n, ok) == <<"r", r, n, ok>>
Kind(t) == t[1]
RegOf(t) == t[2]
ValOf(t) == t[3]
Ok(t) == t[4]

IsWrite(t) == Kind(t) = "w"
Writes(log) == SelectSeq(log, IsWrite)

\* one byte travels to the device register
\* mutant: the byte is or-ed into the register
stored_or(r, v) == [dev EXCEPT ![r] = BitOr(dev[r], v % 256)]

\* write_bytes(r, v): the device register r takes the byte v
stored(r, v) == [dev EXCEPT ![r] = v % 256]

\* the outcome of an operation: it returned val, or it raised `what`
\* an outcome is the tuple <<operation, status, argument, bus answer, value>>
Outcome(op, status, arg, data, val) == <<op, status, arg, data, val>>
Op(r) == r[1]
Status(r) == r[2]
Arg(r) == r[3]
Data(r) == r[4]
Val(r) == r[5]
Result(op, arg, data, val) == Outcome(op, "ok", arg, data, val)
Raised(op, arg, data, what) == Outcome(op, "err", arg, data, what)

\* mutant: the failed transaction is tried again
after_error_retry(step) == step

\* no handler catches: the exception leaves init (lines 127-136) at once
after_error(step) == "idle"

\* the steps of _standby and _active that write back what the context read
InRmw == {"standby_wr", "active_standby", "active_go"}

\* the transaction t reached control register 1
OnCtrl1(t) == Ok(t) /\ RegOf(t) = FXAS_H_CTRL_REG1

\* the transaction t of context p is issued; on success p goes on to `next`
Issue(p, t, next) ==
    /\ bus' = IF p = cur THEN Append(bus, t) ELSE bus
    /\ written' = IF Ok(t) /\ IsWrite(t) THEN written \cup {RegOf(t)} ELSE written
    /\ stale' = IF ~OnCtrl1(t) THEN stale
                ELSE IF ~IsWrite(t) THEN [stale EXCEPT ![p] = FALSE]
                ELSE [q \in Procs |->
                        IF q = p THEN (next \in InRmw /\ stale[p])
                        ELSE IF pc[q] \in InRmw THEN TRUE ELSE stale[q]]
    /\ lost' = IF OnCtrl1(t) /\ IsWrite(t) /\ pc[p] \in InRmw /\ stale[p]
               THEN TRUE ELSE lost
    /\ pc' = [pc EXCEPT ![p] = IF Ok(t) THEN next ELSE after_error(pc[p])]
    /\ ret' = IF p # cur THEN ret
              ELSE IF ~Ok(t) THEN Raised(Op(ret), Arg(ret), Data(ret), "TransportError")
              ELSE IF next = "idle" THEN Result(Op(ret), Arg(ret), Data(ret), Val(ret))
              ELSE ret

----------------------------------------------------------------------------
(* init, lines 127-136 *)

InitDriver ==
    /\ fsr = 0 /\ odr = 0 /\ fs_exp = 0 /\ has_cfg = FALSE
    /\ \E c \in InitCtrl1 :
          dev = [r \in Regs |-> IF r = FXAS_H_CTRL_REG1 THEN c ELSE 0]
    /\ pc = [p \in Procs |-> "idle"]
    /\ reg = [p \in Procs |-> 0]
    /\ bus = <<>>
    /\ prev = NoCall
    /\ ret = Result("new", <<>>, <<>>, "None")
    /\ ncalls = 0
    /\ cargs = [p \in Procs |-> <<>>]
    /\ written = {}
    /\ stale = [p \in Procs |-> FALSE]
    /\ lost = FALSE
    /\ cur = 1

\* one caller: its calls follow one another
Init == InitDriver /\ serial = TRUE

\* lines 127-129: the arguments are stored before any transaction
init(p, f, o, e) ==
    /\ pc[p] = "idle"
    /\ fsr' = f /\ odr' = o /\ fs_exp' = e /\ has_cfg' = TRUE
    /\ pc' = [pc EXCEPT ![p] = "standby_rd"]
    /\ bus' = <<>>
    /\ prev' = IF Op(ret) = "init" /\ Status(ret) = "ok" /\ Arg(ret) = <<f, o, e>>
               THEN <<Arg(ret), Data(ret)[1], Writes(bus), <<fsr, odr, fs_exp>>>>
               ELSE NoCall
    /\ ret' = Outcome("init", "run", <<f, o, e>>, <<dev[FXAS_H_CTRL_REG1]>>, "None")
    /\ cargs' = [cargs EXCEPT ![p] = <<f, o, e>>]
    /\ cur' = p
    /\ UNCHANGED <<dev, reg, written, stale, lost, serial>>

\* _standby, line 139
_standby_read(p, ok) ==
    /\ pc[p] = "standby_rd"
    /\ Issue(p, R(FXAS_H_CTRL_REG1, 1, ok), "standby_wr")
    /\ reg' = IF ok THEN [reg EXCEPT ![p] = dev[FXAS_H_CTRL_REG1]] ELSE reg
    /\ UNCHANGED <<fsr, odr, fs_exp, has_cfg, dev, prev, ncalls, cargs, serial, cur>>

\* _standby, lines 140-141
_standby_write(p, ok) ==
    /\ pc[p] = "standby_wr"
    /\ reg' = [reg EXCEPT ![p] = clear_mode_bits(reg[p])]
    /\ Issue(p, W(FXAS_H_CTRL_REG1, reg'[p], ok), "fs_exp")
    /\ dev' = IF ok THEN stored(FXAS_H_CTRL_REG1, reg'[p]) ELSE dev
    /\ UNCHANGED <<fsr, odr, fs_exp, has_cfg, prev, ncalls, cargs, serial, cur>>

\* _set_fs_exp(self.fs_exp), lines 131, 143-149
_set_fs_exp(p, ok) ==
    /\ pc[p] = "fs_exp"
    /\ Issue(p, W(FXAS_H_CTRL_REG3, fs_exp_value(fs_exp), ok), "fsr")
    /\ dev' = IF ok THEN stored(FXAS_H_CTRL_REG3, fs_exp_value(fs_exp)) ELSE dev
    /\ fs_exp' = IF ok THEN fs_exp_value(fs_exp) ELSE fs_exp
    /\ UNCHANGED <<fsr, odr, has_cfg, reg, prev, ncalls, cargs, serial, cur>>

\* _set_fsr(self.fsr), lines 132, 151-155
_set_fsr(p, ok) ==
    /\ pc[p] = "fsr"
    /\ Issue(p, W(FXAS_H_CTRL_REG0, fsr_value(fsr), ok), "odr")
    /\ dev' = IF ok THEN stored(FXAS_H_CTRL_REG0, fsr_value(fsr)) ELSE dev
    /\ fsr' = IF ok THEN fsr_value(fsr) ELSE fsr
    /\ UNCHANGED <<odr, fs_exp, has_cfg, reg, prev, ncalls, cargs, serial, cur>>

\* _set_odr(self.odr), lines 133, 157-161
_set_odr(p, ok) ==
    /\ pc[p] = "odr"
    /\ Issue(p, W(FXAS_H_CTRL_REG1, odr_bits(odr_value(odr)), ok), "ctrl_reg2")
    /\ dev' = IF ok THEN stored(FXAS_H_CTRL_REG1, odr_bits(odr_value(odr))) ELSE dev
    /\ odr' = IF ok THEN odr_value(odr) ELSE odr
    /\ UNCHANGED <<fsr, fs_exp, has_cfg, reg, prev, ncalls, cargs, serial, cur>>

\* a write of a fixed value: _set_ctrl_reg2 and _set_rate_threshold
fixed_write(p, ok, step, r, v, next) ==
    /\ pc[p] = step
    /\ Issue(p, W(r, v, ok), next)
    /\ dev' = IF ok THEN stored(r, v) ELSE dev
    /\ UNCHANGED <<fsr, odr, fs_exp, has_cfg, reg, prev, ncalls, cargs, serial, cur>>

\* line 167
_set_ctrl_reg2(p, ok) ==
    fixed_write(p, ok, "ctrl_reg2", FXAS_H_CTRL_REG2, 14, "rt_cfg")

\* lines 172, 174, 176
_set_rate_threshold_cfg(p, ok) ==
    fixed_write(p, ok, "rt_cfg", FXAS_H_RT_CFG, 7, "rt_ths")
_set_rate_threshold_ths(p, ok) ==
    fixed_write(p, ok, "rt_ths", FXAS_H_RT_THS, BitOr(0, 13), "rt_count")
_set_rate_threshold_count(p, ok) ==
    fixed_write(p, ok, "rt_count", FXAS_H_RT_COUNT, 4, "active_rd")

\* _active, line 179
_active_read(p, ok) ==
    /\ pc[p] = "active_rd"
    /\ Issue(p, R(FXAS_H_CTRL_REG1, 1, ok), "active_standby")
    /\ reg' = IF ok THEN [reg EXCEPT ![p] = dev[FXAS_H_CTRL_REG1]] ELSE reg
    /\ UNCHANGED <<fsr, odr, fs_exp, has_cfg, dev, prev, ncalls, cargs, serial, cur>>

\* _active, lines 181-182
_active_standby(p, ok) ==
    /\ pc[p] = "active_standby"
    /\ reg' = [reg EXCEPT ![p] = clear_mode_bits(reg[p])]
    /\ Issue(p, W(FXAS_H_CTRL_REG1, reg'[p], ok), "active_go")
    /\ dev' = IF ok THEN stored(FXAS_H_CTRL_REG1, reg'[p]) ELSE dev
    /\ UNCHANGED <<fsr, odr, fs_exp, has_cfg, prev, ncalls, cargs, serial, cur>>

\* _active, lines 184-185; init returns
_active_go(p, ok) ==
    /\ pc[p] = "active_go"
    /\ reg' = [reg EXCEPT ![p] = set_active_bit(reg[p])]
    /\ Issue(p, W(FXAS_H_CTRL_REG1, reg'[p], ok), "idle")
    /\ dev' = IF ok THEN stored(FXAS_H_CTRL_REG1, reg'[p]) ELSE dev
    /\ UNCHANGED <<fsr, odr, fs_exp, has_cfg, prev, ncalls, cargs, serial, cur>>

\* the next transaction of an init call in progress
InitStep(p, ok) ==
    \/ _standby_read(p, ok)
    \/ _standby_write(p, ok)
    \/ _set_fs_exp(p, ok)
    \/ _set_fsr(p, ok)
    \/ _set_odr(p, ok)
    \/ _set_ctrl_reg2(p, ok)
    \/ _set_rate_threshold_cfg(p, ok)
    \/ _set_rate_threshold_ths(p, ok)
    \/ _set_rate_threshold_count(p, ok)
    \/ _active_read(p, ok)
    \/ _active_standby(p, ok)
    \/ _active_go(p, ok)

----------------------------------------------------------------------------
(* The read operations: one bus read each *)

\* mutant: the read operation puts the device in standby before it reads
read_op_standby(p, t, r) ==
    /\ pc[p] = "idle"
    /\ bus' = <<W(FXAS_H_CTRL_REG1, clear_mode_bits(dev[FXAS_H_CTRL_REG1]), TRUE), t>>
    /\ dev' = stored(FXAS_H_CTRL_REG1, clear_mode_bits(dev[FXAS_H_CTRL_REG1]))
    /\ prev' = NoCall
    /\ ret' = r
    /\ UNCHANGED <<fsr, odr, fs_exp, has_cfg, pc, reg, ncalls,
                   cargs, written, stale, lost, serial>>
    /\ cur' = p

\* a read operation of context p issues the transaction t and ends with outcome r
read_op(p, t, r) ==
    /\ pc[p] = "idle"
    /\ bus' = <<t>>
    /\ prev' = NoCall
    /\ ret' = r
    /\ UNCHANGED <<fsr, odr, fs_exp, has_cfg, dev, pc, reg, ncalls,
                   cargs, written, stale, lost, serial>>
    /\ cur' = p

\* lines 197-201
get_raw_gyro(p, ok, data) ==
    read_op(p, R(FXAS_H_OUT_X_MSB, 6, ok),
            IF ok THEN Result("get_raw_gyro", "None", data, raw_gyro(data))
            ELSE Raised("get_raw_gyro", "None", <<>>, "TransportError"))

\* lines 213-214
get_raw_int_temp(p, ok, raw_t) ==
    read_op(p, R(FXAS_H_TEMP, 1, ok),
            IF ok THEN Result("get_raw_int_temp", "None", <<raw_t>>, raw_t)
            ELSE Raised("get_raw_int_temp", "None", <<>>, "TransportError"))

\* lines 228-244; self.fsr and self.fs_exp exist only after init, and
\* GSENS_COEFF[self.fsr] raises for an index outside the list
get_gyro(p, ok, data, axis) ==
    read_op(p, R(FXAS_H_OUT_X_MSB, 6, ok),
            IF ~ok THEN Raised("get_gyro", axis, <<>>, "TransportError")
            ELSE IF ~has_cfg THEN Raised("get_gyro", axis, <<>>, "AttributeError")
            ELSE IF ~coeff_ok(fsr) THEN Raised("get_gyro", axis, <<>>, "IndexError")
            ELSE Result("get_gyro", axis, data,
                        select_axis(scale(raw_gyro(data), fsr, fs_exp), axis)))

\* lines 258-273
get_int_temp(p, ok, raw_t, unit) ==
    read_op(p, R(FXAS_H_TEMP, 1, ok),
            IF ok THEN Result("get_int_temp", unit, <<raw_t>>, int_temp(raw_t, unit))
            ELSE Raised("get_int_temp", unit, <<>>, "TransportError"))

----------------------------------------------------------------------------
(* Spec: one caller, a bus that never fails *)

Call ==
    \E f \in FsrArgs, o \in OdrArgs, e \in ExpArgs :
        init(1, f, o, e) /\ UNCHANGED ncalls

ReadRawGyro == \E d \in GyroData : get_raw_gyro(1, TRUE, d)
ReadGyro == \E d \in GyroData, a \in AxisArgs : get_gyro(1, TRUE, d, a)
ReadRawTemp == \E t \in TempBytes : get_raw_int_temp(1, TRUE, t)
ReadTemp == \E t \in TempBytes, u \in UnitArgs : get_int_temp(1, TRUE, t, u)

Next ==
    \/ Call
    \/ InitStep(1, TRUE)
    \/ ReadRawGyro
    \/ ReadGyro
    \/ ReadRawTemp
    \/ ReadTemp

Spec == Init /\ [][Next]_vars

----------------------------------------------------------------------------
(* SpecF: one caller, any bus transaction may raise a transport error *)

CallF ==
    /\ ncalls < MaxCalls
    /\ \E a \in FailArgs : init(1, a[1], a[2], a[3])
    /\ ncalls' = ncalls + 1

\* the read of a read operation raises: the device's answer never arrives
FailedRead ==
    \/ get_raw_gyro(1, FALSE, <<>>)
    \/ \E a \in AxisArgs : get_gyro(1, FALSE, <<>>, a)
    \/ get_raw_int_temp(1, FALSE, 0)
    \/ \E u \in UnitArgs : get_int_temp(1, FALSE, 0, u)

NextF ==
    \/ CallF
    \/ InitStep(1, TRUE)
    \/ InitStep(1, FALSE)
    \/ FailedRead

SpecF == Init /\ [][NextF]_vars

----------------------------------------------------------------------------
(* SpecC: two execution contexts call init on one driver, the bus never   *)
(* fails.  With serial they hold one lock around each call; without it    *)
(* their bus transactions interleave freely.                              *)

\* argument triples of the concurrent calls
ConcArgs == {<<0, 2, 0>>, <<3, 7, 1>>}

InitC == InitDriver /\ serial \in BOOLEAN

LockFree == \A q \in Procs : pc[q] = "idle"

CallC ==
    /\ ncalls < MaxCalls
    /\ serial => LockFree
    /\ \E p \in Procs, a \in ConcArgs : init(p, a[1], a[2], a[3])
    /\ ncalls' = ncalls + 1

StepC == \E p \in Procs : InitStep(p, TRUE)

NextC ==
    \/ CallC
    \/ StepC

SpecC == InitC /\ [][NextC]_vars

----------------------------------------------------------------------------
(* Properties *)

\* the init call of context 1 has returned normally; bus holds its transactions,
\* Arg(ret) its arguments and Data(ret)[1] control register 1 as the call found it
Done == pc[1] = "idle" /\ Op(ret) = "init" /\ Status(ret) = "ok"

InRange(a) == a[1] \in 0..3 /\ a[2] \in 0..7 /\ a[3] \in {0, 1}

IsPrefix(a, b) == Len(a) <= Len(b) /\ \A i \in 1..Len(a) : a[i] = b[i]

RegsOf(w) == [i \in 1..Len(w) |-> RegOf(w[i])]

InitOrder ==
    << FXAS_H_CTRL_REG1, FXAS_H_CTRL_REG3, FXAS_H_CTRL_REG0, FXAS_H_CTRL_REG1,
       FXAS_H_CTRL_REG2, FXAS_H_RT_CFG, FXAS_H_RT_THS, FXAS_H_RT_COUNT,
       FXAS_H_CTRL_REG1, FXAS_H_CTRL_REG1 >>

\* C1: the writes of init come in the order standby (control register 1, the
\* value read with its two low bits cleared), range expansion, full-scale
\* range, output data rate, interrupt routing, the three rate-threshold
\* registers, then the two writes of the activate step: a value with low bits
\* 00 and the same value with bit 1 set.  At every moment of a call the writes
\* issued so far are a prefix of that order, and a call that returned issued
\* exactly these ten.
C1_InitWriteOrder ==
    Op(ret) = "init" =>
        LET w == Writes(bus) IN
        /\ IsPrefix(RegsOf(w), InitOrder)
        /\ Len(w) >= 1 =>
              /\ ValOf(w[1]) % 4 = 0
              /\ ValOf(w[1]) = Data(ret)[1] - (Data(ret)[1] % 4)
              /\ Kind(bus[1]) = "r" /\ bus[2] = w[1]
        /\ Len(w) >= 9 => ValOf(w[9]) % 4 = 0
        /\ Len(w) >= 10 =>
              /\ ValOf(w[10]) = ValOf(w[9]) + 2
              /\ (ValOf(w[10]) \div 2) % 2 = 1 /\ ValOf(w[10]) % 2 = 0
        /\ Done => Len(w) = 10 /\ bus[Len(bus)] = w[10]

C1_Witness ==
    /\ Done
    /\ Data(ret)[1] = 255
    /\ ValOf(Writes(bus)[1]) = 252
    /\ ValOf(Writes(bus)[9]) = 28 /\ ValOf(Writes(bus)[10]) = 30

\* C2 (as claimed): after init returns, an fsr argument outside 0..3 was
\* written and stored as 0, an odr argument outside 0..7 was written as 2<<2
\* and stored as 2, and so the stored fsr is in 0..3 and the stored odr in 0..7.
C2_Clamped ==
    Done =>
        LET w == Writes(bus) IN
        /\ Arg(ret)[1] \notin 0..3 => ValOf(w[3]) = 0 /\ fsr = 0
        /\ Arg(ret)[2] \notin 0..7 => ValOf(w[4]) = 8 /\ odr = 2
        /\ fsr \in 0..3
        /\ odr \in 0..7

\* C3 (as claimed): an init call that repeats the in-range arguments of the
\* init call completed right before it issues the same (register, value)
\* writes and leaves the same stored fields.
C3_SameWrites ==
    (Done /\ prev # NoCall /\ InRange(Arg(ret))) =>
        /\ Writes(bus) = PrevWrites
        /\ <<fsr, odr, fs_exp>> = PrevFields

\* C3 (amended): the repeated call issues the same writes as the first from
\* the second write on, and leaves the same stored fields; the first write
\* (standby, to control register 1) carries what the call found in the
\* register with its two low bits cleared, which is odr<<2 for the repeated
\* call, so the two sequences are equal exactly when the first call found
\* control register 1 holding odr<<2 in its bits 2..7.
C3_SameWritesButStandby ==
    (Done /\ prev # NoCall /\ InRange(Arg(ret))) =>
        LET w == Writes(bus)
            v == PrevWrites IN
        /\ Len(w) = Len(v)
        /\ \A i \in 2..Len(w) : w[i] = v[i]
        /\ RegOf(w[1]) = RegOf(v[1])
        /\ ValOf(v[1]) = PrevCtrl1 - (PrevCtrl1 % 4)
        /\ ValOf(w[1]) = 4 * Arg(ret)[2]
        /\ (w = v) <=> (PrevCtrl1 - (PrevCtrl1 % 4) = 4 * Arg(ret)[2])
        /\ <<fsr, odr, fs_exp>> = PrevFields
        /\ <<fsr, odr, fs_exp>> = Arg(ret)

C3_Witness ==
    /\ Done /\ prev # NoCall /\ InRange(Arg(ret))
    /\ PrevCtrl1 = 255
    /\ Writes(bus)[1] # PrevWrites[1]

\* C4: a transaction that raised a transport error is the last transaction
\* of its operation: the operation has ended with that error, returned no
\* value, and issued nothing after it (not the failed transaction again, no
\* later one, and so never the final active write of init).
C4_ErrorEndsOperation ==
    /\ \A i \in 1..Len(bus) :
          ~Ok(bus[i]) =>
              /\ i = Len(bus)
              /\ pc[1] = "idle"
              /\ Status(ret) = "err" /\ Val(ret) = "TransportError"
    /\ (Op(ret) = "init" /\ Status(ret) = "err") =>
          /\ ~Ok(bus[Len(bus)])
          /\ \A i \in 1..Len(bus) :
                bus[i] = W(FXAS_H_CTRL_REG1, ValOf(bus[i]), TRUE) => ValOf(bus[i]) % 4 # 2

C4_Witness ==
    /\ Op(ret) = "init" /\ Status(ret) = "err" /\ pc[1] = "idle"
    /\ Len(bus) = 6
    /\ ~Ok(bus[6]) /\ RegOf(bus[6]) = FXAS_H_CTRL_REG2

\* the j-th raw word (X, Y, Z) of the 6-byte answer d, most significant byte first
Word(d, j) == 256 * d[2 * j - 1] + d[2 * j]

\* get_gyro returned the whole triple
GyroTriple == Op(ret) = "get_gyro" /\ Status(ret) = "ok" /\ Arg(ret) = "None"

\* C5: with fsr in 0..3 and fs_exp in {0,1} set by init, get_gyro multiplies
\* each sign-corrected word by table[fsr] * (fs_exp + 1), table = 8, 4, 2, 1
\* in units of 1/128 dps per LSB; the stored odr does not enter the result.
C5_ScaleFactor ==
    (GyroTriple /\ fsr \in 0..3 /\ fs_exp \in {0, 1}) =>
        \A j \in 1..3 :
            Val(ret)[j] = sign_fix(Word(Data(ret), j))
                          * (<<8, 4, 2, 1>>[fsr + 1] * (fs_exp + 1))

C5_Witness ==
    /\ GyroTriple /\ fsr = 3 /\ fs_exp = 1 /\ odr = 7
    /\ Data(ret) = <<127, 255, 0, 1, 128, 0>>
    /\ Val(ret) = <<65534, 2, 65536>>

\* C6: for each axis, the value get_gyro scales is w - 65535 when the raw
\* word w is >= 32769 and w itself when w <= 32768: 32769 becomes -32766,
\* 32768 stays 32768 and 65535 becomes 0.
C6_SignCorrection ==
    (GyroTriple /\ coeff_ok(fsr)) =>
        \A j \in 1..3 :
            LET w == Word(Data(ret), j)
                k == coeff(fsr) * (fs_exp + 1)
                g == IF w >= 32769 THEN w - 65535 ELSE w
            IN  /\ k > 0
                /\ Val(ret)[j] = g * k
                /\ w = 32769 => Val(ret)[j] = (-32766) * k
                /\ w = 32768 => Val(ret)[j] = 32768 * k
                /\ w = 65535 => Val(ret)[j] = 0

C6_Witness ==
    /\ GyroTriple /\ fsr = 0 /\ fs_exp = 0
    /\ Data(ret) = <<127, 255, 128, 0, 128, 1>>
    /\ Val(ret) = <<32767 * 8, 32768 * 8, (-32766) * 8>>

\* C7: get_int_temp takes celsius = r - 256 for a raw byte r >= 128 and r
\* otherwise, and returns celsius for "C"/"c", celsius + 273.15 for "K"/"k",
\* celsius * 1.8 + 32 for "F"/"f", and None, which no reading equals, for
\* any other unit (values in hundredths of a degree).
C7_Temperature ==
    (Op(ret) = "get_int_temp" /\ Status(ret) = "ok") =>
        LET r == Data(ret)[1]
            c == IF r >= 128 THEN r - 256 ELSE r
            u == Arg(ret)
        IN  /\ c \in -128..127
            /\ u \in {"C", "c"} => Val(ret) = <<"num", 100 * c>>
            /\ u \in {"K", "k"} => Val(ret) = <<"num", 100 * c + 27315>>
            /\ u \in {"F", "f"} => Val(ret) = <<"num", 180 * c + 3200>>
            /\ u \notin {"C", "c", "K", "k", "F", "f"} =>
                  /\ Val(ret) = None
                  /\ \A t \in TempBytes, x \in UnitArgs \ {u} :
                        int_temp(t, x) # None => Val(ret) # int_temp(t, x)
            /\ r = 200 =>
                  /\ u = "C" => Val(ret) = <<"num", -5600>>
                  /\ u = "K" => Val(ret) = <<"num", 21715>>
                  /\ u = "F" => Val(ret) = <<"num", -6880>>

C7_Witness ==
    /\ Op(ret) = "get_int_temp" /\ Status(ret) = "ok"
    /\ Data(ret) = <<200>> /\ Arg(ret) = "F"
    /\ Val(ret) = <<"num", -6880>>

\* C8: get_raw_gyro returns [256*b0+b1, 256*b2+b3, 256*b4+b5] for the 6-byte
\* answer b to its one read at OUT_X_MSB, each word in 0..65535.
C8_RawWords ==
    (Op(ret) = "get_raw_gyro" /\ Status(ret) = "ok") =>
        /\ bus = <<R(FXAS_H_OUT_X_MSB, 6, TRUE)>>
        /\ Val(ret) = << 256 * Data(ret)[1] + Data(ret)[2],
                         256 * Data(ret)[3] + Data(ret)[4],
                         256 * Data(ret)[5] + Data(ret)[6] >>
        /\ \A j \in 1..3 : Val(ret)[j] \in 0..65535

C8_Witness ==
    /\ Op(ret) = "get_raw_gyro" /\ Status(ret) = "ok"
    /\ Data(ret) = <<127, 255, 0, 1, 128, 0>>
    /\ Val(ret) = <<32767, 1, 32768>>

\* C9: get_gyro with axis x/X, y/Y, z/Z returns element 0, 1, 2 of the scaled
\* triple of the same sample; with no axis or any other axis it returns the
\* whole triple, and the axis never makes it raise.
C9_AxisSelection ==
    Op(ret) = "get_gyro" =>
        LET triple == scale(raw_gyro(Data(ret)), fsr, fs_exp)
            a == Arg(ret)
        IN  /\ (has_cfg /\ coeff_ok(fsr)) => Status(ret) = "ok"
            /\ Status(ret) = "ok" =>
                  /\ a \in {"x", "X"} => Val(ret) = triple[1]
                  /\ a \in {"y", "Y"} => Val(ret) = triple[2]
                  /\ a \in {"z", "Z"} => Val(ret) = triple[3]
                  /\ a \notin {"x", "X", "y", "Y", "z", "Z"} => Val(ret) = triple

C9_Witness ==
    /\ Op(ret) = "get_gyro" /\ Status(ret) = "ok" /\ Arg(ret) = "y"
    /\ fsr = 1 /\ fs_exp = 0
    /\ Data(ret) = <<127, 255, 0, 1, 128, 0>>
    /\ Val(ret) = 4

\* C10: init writes 0 to the range-expansion register and stores 0 for a
\* fs_exp argument outside {0,1}, writes and stores the argument for 0 and 1,
\* and returns normally either way.
C10_RangeExpansion ==
    (Op(ret) = "init" /\ pc[1] = "idle") =>
        LET e == Arg(ret)[3]
            w == Writes(bus) IN
        /\ Status(ret) = "ok"
        /\ RegOf(w[2]) = FXAS_H_CTRL_REG3
        /\ e \notin {0, 1} => ValOf(w[2]) = 0 /\ fs_exp = 0
        /\ e \in {0, 1} => ValOf(w[2]) = e /\ fs_exp = e
        /\ dev[FXAS_H_CTRL_REG3] = fs_exp

C10_Witness ==
    /\ Done /\ Arg(ret)[3] = 2
    /\ Writes(bus)[2] = W(FXAS_H_CTRL_REG3, 0, TRUE)
    /\ fs_exp = 0

ReadOps == {"get_raw_gyro", "get_gyro", "get_raw_int_temp", "get_int_temp"}

\* C11: a step that is one of the four read operations issues no bus write
\* and exactly one bus read (6 bytes at OUT_X_MSB or 1 byte at TEMP), and
\* leaves the stored fsr, odr, fs_exp and every device register as they were.
C11_ReadsChangeNothing ==
    [][Op(ret') \in ReadOps =>
          /\ Len(bus') = 1
          /\ bus'[1] \in {R(FXAS_H_OUT_X_MSB, 6, TRUE), R(FXAS_H_TEMP, 1, TRUE)}
          /\ Writes(bus') = <<>>
          /\ fsr' = fsr /\ odr' = odr /\ fs_exp' = fs_exp
          /\ dev' = dev]_vars

\* a read operation after a completed init: the device is still active
C11_Witness ==
    /\ Op(ret) = "get_gyro" /\ Status(ret) = "ok"
    /\ has_cfg /\ pc[1] = "idle"
    /\ bus = <<R(FXAS_H_OUT_X_MSB, 6, TRUE)>>
    /\ <<fsr, odr, fs_exp>> = <<3, 7, 1>>
    /\ dev[FXAS_H_CTRL_REG1] = 30 /\ dev[FXAS_H_CTRL_REG0] = 3

\* the steps of init after the standby write and before the last write
AfterStandby ==
    {"fs_exp", "fsr", "odr", "ctrl_reg2", "rt_cfg", "rt_ths", "rt_count",
     "active_rd", "active_standby", "active_go"}

\* C12: from the completion of the standby write until the last write of
\* the activate step the two low bits of control register 1 are 00, whatever
\* the register held before and whatever odr is: every configuration write
\* finds the device in standby, and only the last write makes it active.
C12_StandbyWhileConfiguring ==
    Op(ret) = "init" =>
        /\ pc[1] \in AfterStandby => dev[FXAS_H_CTRL_REG1] % 4 = 0
        /\ \A i \in 1..Len(bus) :
              (IsWrite(bus[i]) /\ RegOf(bus[i]) = FXAS_H_CTRL_REG1
                 /\ i < 12) => ValOf(bus[i]) % 4 = 0
        /\ Done => dev[FXAS_H_CTRL_REG1] % 4 = 2

C12_Witness ==
    /\ Op(ret) = "init" /\ pc[1] = "ctrl_reg2"
    /\ Data(ret)[1] = 255
    /\ Arg(ret)[2] = 7
    /\ dev[FXAS_H_CTRL_REG1] = 28

\* C13: the two writes of the activate step carry, in bits 2..7, the value
\* the step read, which is what the output-data-rate write left there; after
\* init returns with odr in 0..7 control register 1 holds (odr<<2) | 0x02.
C13_ActivateKeepsRate ==
    Op(ret) = "init" =>
        LET w == Writes(bus) IN
        /\ pc[1] = "active_standby" =>
              /\ reg[1] = dev[FXAS_H_CTRL_REG1]
              /\ reg[1] = ValOf(w[4]) % 256
        /\ Len(w) >= 9 => ValOf(w[9]) \div 4 = ValOf(w[4]) \div 4
        /\ Len(w) >= 10 => ValOf(w[10]) \div 4 = ValOf(w[4]) \div 4
        /\ (Done /\ Arg(ret)[2] \in 0..7) =>
              /\ dev[FXAS_H_CTRL_REG1] = 4 * Arg(ret)[2] + 2
              /\ dev[FXAS_H_CTRL_REG1] \div 4 = odr
              /\ dev[FXAS_H_CTRL_REG1] % 4 = 2

C13_Witness ==
    /\ Done /\ Arg(ret)[2] = 7
    /\ Writes(bus)[9] = W(FXAS_H_CTRL_REG1, 28, TRUE)
    /\ Writes(bus)[10] = W(FXAS_H_CTRL_REG1, 30, TRUE)
    /\ dev[FXAS_H_CTRL_REG1] = 30

\* the stored fields and the device registers are those of one completed
\* init(a[1], a[2], a[3]) with arguments in range
Matches(a) ==
    /\ <<fsr, odr, fs_exp>> = a
    /\ dev[FXAS_H_CTRL_REG0] = a[1]
    /\ dev[FXAS_H_CTRL_REG3] = a[3]
    /\ dev[FXAS_H_CTRL_REG1] = 4 * a[2] + 2

\* C14: when the calls of the two execution contexts are serialized by one
\* lock, no write to control register 1 ever lands between the read and the
\* write-back of _standby or _active of another call (no lost update), and
\* whenever no call is in progress after some call, the stored fields and the
\* device registers match the arguments of the call started last.  Without
\* the lock both failures are reachable (C14_Witness).
C14_SerializedCallsAreSafe ==
    serial =>
        /\ ~lost
        /\ \A p \in Procs : ~stale[p]
        /\ (LockFree /\ ncalls > 0) => Matches(cargs[cur])

\* two unserialized calls with different arguments have ended: a write-back
\* has overwritten the other context's write to control register 1, and
\* fields and registers match neither call's arguments
C14_Witness ==
    /\ ~serial /\ lost /\ LockFree
    /\ cargs[1] \in ConcArgs /\ cargs[2] \in ConcArgs /\ cargs[1] # cargs[2]
    /\ ~Matches(cargs[1]) /\ ~Matches(cargs[2])

\* C15: whenever no init is in progress, the stored fsr and fs_exp equal the
\* values last written to control registers 0 and 3 of the device, and the
\* stored fs_exp is 0 or 1, whatever the arguments of the init calls and
\* wherever a transport error aborted them.
C15_StoredMatchesDevice ==
    (pc[1] = "idle" /\ has_cfg) =>
        /\ FXAS_H_CTRL_REG0 \in written => fsr = dev[FXAS_H_CTRL_REG0]
        /\ FXAS_H_CTRL_REG3 \in written => fs_exp = dev[FXAS_H_CTRL_REG3]
        /\ fs_exp \in {0, 1}

====
